---- MODULE Spec2Model ----
(***************************************************************************)
(* CrabNets topology engine: the Graph container (src/src/lib.rs) over the *)
(* two simple locales (src/src/locales.rs).  A state is one Graph value:   *)
(* its edge_list (vertex id -> locale), its min_free_vertex_id, and the    *)
(* outcome of the last public call.  The locale type is fixed when the     *)
(* graph is constructed and is held in `family`.                           *)
(***************************************************************************)
EXTENDS Integers, Sequences, FiniteSets, TLC

VARIABLES family, edge_list, min_free_vertex_id, ret

vars == <<family, edge_list, min_free_vertex_id, ret>>

\* ------------------------------------------------------------------ bounds
\* Largest vertex identifier a caller passes explicitly.
MaxId == 1

VertexIds == 0 .. MaxId

\* ------------------------------------------------------- option / map helpers
\* Option<T>: None is the empty sequence, Some(x) the one-element sequence.
None == << >>

Some(x) == << x >>

is_some(o) == Len(o) = 1

\* HashMap::new()
EmptyMap == [k \in {} |-> 0]

\* HashMap::insert (overwrites an existing key)
map_insert(m, key, value) == [k \in (DOMAIN m) \cup {key} |-> IF k = key THEN value ELSE m[k]]

\* HashMap::remove
map_remove(m, key) == [k \in (DOMAIN m) \ {key} |-> m[k]]

\* the elements of a sequence
Range(q) == {q[i] : i \in DOMAIN q}

RECURSIVE SetToSeq(_)
\* One enumeration order of a hash set / key set (ascending).
SetToSeq(S) == IF S = {} THEN << >>
               ELSE LET x == CHOOSE y \in S : \A z \in S : y <= z
                    IN  << x >> \o SetToSeq(S \ {x})

\* ------------------------------------------------------------ identifiers
\* <usize as Id>::default()
VertexId_default == 0

\* <u8 as Id>::default(): the placeholder edge identifier of simple graphs
EdgeId_default == 0

\* Id::increment
increment(x) == x + 1

\* AttributeCollection::new(): a fresh, empty collection
AttributeCollection_new == 0

\* ------------------------------------------------- SimpleUndirectedLocale
\* SimpleUndirectedLocale::new
SimpleUndirectedLocale_new(associated_vertex_id) ==
    [associated_vertex_id |-> associated_vertex_id,
     attributes           |-> AttributeCollection_new,
     edges                |-> EmptyMap]

\* SimpleUndirectedLocale::add_e (relation and edge id are ignored)
SimpleUndirectedLocale_add_e(loc, id2, relation, store_edge_attributes) ==
    [loc EXCEPT !.edges = map_insert(@, id2,
        IF store_edge_attributes THEN Some(AttributeCollection_new) ELSE None)]

\* SimpleUndirectedLocale::remove_e : the locale afterwards
SimpleUndirectedLocale_remove_e(loc, id2) == [loc EXCEPT !.edges = map_remove(@, id2)]

\* SimpleUndirectedLocale::remove_e : the returned flag
SimpleUndirectedLocale_remove_e_ret(loc, id2) == id2 \in DOMAIN loc.edges

\* SimpleUndirectedLocale::e_direction
SimpleUndirectedLocale_e_direction(loc, id2) ==
    IF id2 \in DOMAIN loc.edges THEN Some("Undirected") ELSE None

\* SimpleUndirectedLocale::e_attrs / e_attrs_mut
SimpleUndirectedLocale_e_attrs(loc, id2) ==
    IF id2 \in DOMAIN loc.edges THEN loc.edges[id2] ELSE None

\* SimpleUndirectedLocale::iter_incident_e_with_attrs
SimpleUndirectedLocale_iter_incident_e_with_attrs(loc) ==
    LET keys == SetToSeq({x \in DOMAIN loc.edges : loc.associated_vertex_id <= x})
    IN  [i \in 1 .. Len(keys) |->
            [direction |-> "Undirected", edge_id |-> EdgeId_default,
             id1 |-> loc.associated_vertex_id, id2 |-> keys[i]]]

\* --------------------------------------------------- SimpleDirectedLocale
\* SimpleDirectedLocale::new
SimpleDirectedLocale_new(associated_vertex_id) ==
    [associated_vertex_id |-> associated_vertex_id,
     attributes           |-> AttributeCollection_new,
     edges                |-> [incoming |-> {}, outgoing |-> EmptyMap, undirected |-> EmptyMap]]

\* a removal that empties the three collections
SimpleEdgeCollection_clear(edges, id2) ==
    [incoming |-> {}, outgoing |-> EmptyMap, undirected |-> EmptyMap]

\* the three removals that open SimpleDirectedLocale::add_e and make up remove_e
SimpleEdgeCollection_purge(edges, id2) ==
    [incoming   |-> edges.incoming \ {id2},
     outgoing   |-> map_remove(edges.outgoing, id2),
     undirected |-> map_remove(edges.undirected, id2)]

\* SimpleDirectedLocale::add_e without the three removals that open it
SimpleDirectedLocale_add_e_no_purge(loc, id2, relation, store_edge_attributes) ==
    [loc EXCEPT !.edges =
        CASE relation = "Incoming"   -> [loc.edges EXCEPT !.incoming = @ \cup {id2}]
          [] relation = "Outgoing"   -> [loc.edges EXCEPT !.outgoing =
                                            map_insert(@, id2, AttributeCollection_new)]
          [] relation = "Undirected" -> [loc.edges EXCEPT !.undirected =
                                            map_insert(@, id2,
                                                IF store_edge_attributes
                                                THEN Some(AttributeCollection_new)
                                                ELSE None)]]

\* SimpleDirectedLocale::add_e
SimpleDirectedLocale_add_e(loc, id2, relation, store_edge_attributes) ==
    LET purged == SimpleEdgeCollection_purge(loc.edges, id2)
    IN  [loc EXCEPT !.edges =
            CASE relation = "Incoming"   -> [purged EXCEPT !.incoming = @ \cup {id2}]
              [] relation = "Outgoing"   -> [purged EXCEPT !.outgoing =
                                                map_insert(@, id2, AttributeCollection_new)]
              [] relation = "Undirected" -> [purged EXCEPT !.undirected =
                                                map_insert(@, id2,
                                                    IF store_edge_attributes
                                                    THEN Some(AttributeCollection_new)
                                                    ELSE None)]]

\* SimpleDirectedLocale::remove_e : the locale afterwards
SimpleDirectedLocale_remove_e(loc, id2) ==
    [loc EXCEPT !.edges = SimpleEdgeCollection_purge(@, id2)]

\* SimpleDirectedLocale::remove_e : the returned flag
SimpleDirectedLocale_remove_e_ret(loc, id2) ==
    \/ id2 \in loc.edges.incoming
    \/ id2 \in DOMAIN loc.edges.outgoing
    \/ id2 \in DOMAIN loc.edges.undirected

\* SimpleDirectedLocale::e_direction
SimpleDirectedLocale_e_direction(loc, id2) ==
    IF id2 \in loc.edges.incoming THEN Some("Directed2to1")
    ELSE IF id2 \in DOMAIN loc.edges.outgoing THEN Some("Directed1to2")
    ELSE IF id2 \in DOMAIN loc.edges.undirected THEN Some("Undirected")
    ELSE None

\* SimpleDirectedLocale::e_attrs / e_attrs_mut
SimpleDirectedLocale_e_attrs(loc, id2) ==
    IF id2 \in DOMAIN loc.edges.outgoing THEN Some(loc.edges.outgoing[id2])
    ELSE IF id2 \in DOMAIN loc.edges.undirected THEN loc.edges.undirected[id2]
    ELSE None

\* SimpleDirectedLocale::iter_incident_e_with_attrs
SimpleDirectedLocale_iter_incident_e_with_attrs(loc) ==
    LET out == SetToSeq(DOMAIN loc.edges.outgoing)
        und == SetToSeq({x \in DOMAIN loc.edges.undirected : loc.associated_vertex_id <= x})
    IN  [i \in 1 .. Len(out) |->
            [direction |-> "Undirected", edge_id |-> EdgeId_default,
             id1 |-> loc.associated_vertex_id, id2 |-> out[i]]]
        \o
        [i \in 1 .. Len(und) |->
            [direction |-> "Directed1to2", edge_id |-> EdgeId_default,
             id1 |-> loc.associated_vertex_id, id2 |-> und[i]]]

\* ------------------------------------------------ Locale trait (dispatch)
\* LocaleType::new
Locale_new(id) ==
    IF family = "undirected" THEN SimpleUndirectedLocale_new(id)
    ELSE SimpleDirectedLocale_new(id)

\* Locale::add_e
Locale_add_e(loc, id2, relation, store_edge_attributes) ==
    IF family = "undirected"
    THEN SimpleUndirectedLocale_add_e(loc, id2, relation, store_edge_attributes)
    ELSE SimpleDirectedLocale_add_e(loc, id2, relation, store_edge_attributes)

\* Locale::remove_e (state)
Locale_remove_e(loc, id2) ==
    IF family = "undirected" THEN SimpleUndirectedLocale_remove_e(loc, id2)
    ELSE SimpleDirectedLocale_remove_e(loc, id2)

\* a removal that answers true whatever the locale holds
Locale_remove_e_ret_always(loc, id2) == TRUE

\* Locale::remove_e (returned flag)
Locale_remove_e_ret(loc, id2) ==
    IF family = "undirected" THEN SimpleUndirectedLocale_remove_e_ret(loc, id2)
    ELSE SimpleDirectedLocale_remove_e_ret(loc, id2)

\* Locale::e_direction
Locale_e_direction(loc, id2) ==
    IF family = "undirected" THEN SimpleUndirectedLocale_e_direction(loc, id2)
    ELSE SimpleDirectedLocale_e_direction(loc, id2)

\* Locale::e_attrs / e_attrs_mut
Locale_e_attrs(loc, id2) ==
    IF family = "undirected" THEN SimpleUndirectedLocale_e_attrs(loc, id2)
    ELSE SimpleDirectedLocale_e_attrs(loc, id2)

\* Locale::iter_incident_e_with_attrs
Locale_iter_incident_e_with_attrs(loc) ==
    IF family = "undirected" THEN SimpleUndirectedLocale_iter_incident_e_with_attrs(loc)
    ELSE SimpleDirectedLocale_iter_incident_e_with_attrs(loc)

\* Locale::count_neighbours_in
Locale_count_neighbours_in(loc) ==
    IF family = "undirected" THEN 0 ELSE Cardinality(loc.edges.incoming)

\* Locale::count_neighbours_out
Locale_count_neighbours_out(loc) ==
    IF family = "undirected" THEN 0 ELSE Cardinality(DOMAIN loc.edges.outgoing)

\* Locale::count_neighbours_undir
Locale_count_neighbours_undir(loc) ==
    IF family = "undirected" THEN Cardinality(DOMAIN loc.edges)
    ELSE Cardinality(DOMAIN loc.edges.undirected)

\* Locale::count_neighbours that leaves the incoming neighbours out
Locale_count_neighbours_no_in(loc) ==
    IF family = "undirected" THEN Cardinality(DOMAIN loc.edges)
    ELSE Cardinality(DOMAIN loc.edges.outgoing) + Cardinality(DOMAIN loc.edges.undirected)

\* Locale::count_neighbours
Locale_count_neighbours(loc) ==
    IF family = "undirected" THEN Cardinality(DOMAIN loc.edges)
    ELSE Cardinality(loc.edges.incoming) + Cardinality(DOMAIN loc.edges.outgoing)
         + Cardinality(DOMAIN loc.edges.undirected)

\* Locale::count_incident_e
Locale_count_incident_e(loc) ==
    IF family = "undirected" THEN Cardinality(DOMAIN loc.edges)
    ELSE Cardinality(loc.edges.incoming) + Cardinality(DOMAIN loc.edges.outgoing)
         + Cardinality(DOMAIN loc.edges.undirected)

\* Locale::iter_neighbours_in (as a set)
Locale_neighbours_in(loc) == IF family = "undirected" THEN {} ELSE loc.edges.incoming

\* Locale::iter_neighbours_out (as a set)
Locale_neighbours_out(loc) == IF family = "undirected" THEN {} ELSE DOMAIN loc.edges.outgoing

\* Locale::iter_neighbours_undir (as a set)
Locale_neighbours_undir(loc) ==
    IF family = "undirected" THEN DOMAIN loc.edges ELSE DOMAIN loc.edges.undirected

\* Locale::iter_incident_e / iter_neighbours: the neighbour ids, one enumeration order
Locale_iter_incident_e(loc) ==
    IF family = "undirected" THEN SetToSeq(DOMAIN loc.edges)
    ELSE SetToSeq(loc.edges.incoming) \o SetToSeq(DOMAIN loc.edges.outgoing)
         \o SetToSeq(DOMAIN loc.edges.undirected)

\* ------------------------------------------------------- Graph: queries
\* Graph::contains_v on a given edge list
contains_v_in(el, id) == id \in DOMAIN el

\* Graph::contains_e on a given edge list
contains_e_in(el, id1, id2) ==
    IF id1 \in DOMAIN el THEN Locale_e_direction(el[id1], id2) ELSE None

\* Graph::count_v on a given edge list
count_v_in(el) == Cardinality(DOMAIN el)

RECURSIVE sum_incident_e(_, _)
\* the accumulation loop of Graph::count_e
sum_incident_e(el, keys) ==
    IF keys = << >> THEN 0
    ELSE Locale_count_incident_e(el[Head(keys)]) + sum_incident_e(el, Tail(keys))

\* Graph::count_e on a given edge list
count_e_in(el) == sum_incident_e(el, SetToSeq(DOMAIN el)) \div 2

\* Graph::e_attrs / Graph::e_attrs_mut on a given edge list: Ok with the
\* collection, Err (not found), or Panic when the inner unwrap meets None.
e_attrs_in(el, id1, id2) ==
    IF id1 \in DOMAIN el
    THEN IF id2 \in DOMAIN el
         THEN LET dir   == contains_e_in(el, id1, id2)
                  owner == CASE dir = Some("Undirected")   -> IF id1 <= id2 THEN id1 ELSE id2
                             [] dir = Some("Directed1to2") -> id1
                             [] dir = Some("Directed2to1") -> id2
                             [] OTHER                      -> id1
                  other == IF owner = id1 THEN id2 ELSE id1
                  found == Locale_e_attrs(el[owner], other)
              IN  IF dir = None THEN [status |-> "Err", owner |-> owner, attrs |-> None]
                  ELSE IF is_some(found) THEN [status |-> "Ok", owner |-> owner, attrs |-> found]
                  ELSE [status |-> "Panic", owner |-> owner, attrs |-> None]
         ELSE [status |-> "Err", owner |-> id2, attrs |-> None]
    ELSE [status |-> "Err", owner |-> id1, attrs |-> None]

RECURSIVE flatten_iter_e(_, _)
\* the map(..).flatten() of Graph::iter_e over the locales in key order
flatten_iter_e(el, keys) ==
    IF keys = << >> THEN << >>
    ELSE Locale_iter_incident_e_with_attrs(el[Head(keys)]) \o flatten_iter_e(el, Tail(keys))

\* Graph::iter_e on a given edge list: the sequence of items produced
iter_e_in(el) == flatten_iter_e(el, SetToSeq(DOMAIN el))

\* Graph::v_degree and friends on a given edge list (vertex present)
v_degree_at(el, id) == Locale_count_neighbours(el[id])

\* the public queries on the current graph
contains_v(id) == contains_v_in(edge_list, id)

contains_e(id1, id2) == contains_e_in(edge_list, id1, id2)

count_v == count_v_in(edge_list)

count_e == count_e_in(edge_list)

e_attrs(id1, id2) == e_attrs_in(edge_list, id1, id2)

iter_e == iter_e_in(edge_list)

v_degree(id) == Locale_count_neighbours(edge_list[id])

v_degree_in(id) == Locale_count_neighbours_in(edge_list[id])

v_degree_out(id) == Locale_count_neighbours_out(edge_list[id])

v_degree_undir(id) == Locale_count_neighbours_undir(edge_list[id])

\* ------------------------------------------------------ Graph: mutators
\* Graph::add_e, both vertices present: the edge list afterwards
Graph_add_e(el, id1, id2, directed) ==
    LET el1 == [el EXCEPT ![id1] = Locale_add_e(@, id2,
                    IF directed THEN "Outgoing" ELSE "Undirected",
                    directed \/ id1 <= id2)]
    IN  [el1 EXCEPT ![id2] = Locale_add_e(@, id1,
                    IF directed THEN "Incoming" ELSE "Undirected",
                    (~directed) /\ id2 <= id1)]

\* Graph::remove_e, both vertices present: the edge list afterwards
Graph_remove_e(el, id1, id2) ==
    LET el1 == [el EXCEPT ![id1] = Locale_remove_e(@, id2)]
    IN  [el1 EXCEPT ![id2] = Locale_remove_e(@, id1)]

\* Graph::remove_e, both vertices present: the flag inside Ok(..), which is
\* the second locale's answer, taken after the first locale was updated
Graph_remove_e_ret(el, id1, id2) ==
    LET el1 == [el EXCEPT ![id1] = Locale_remove_e(@, id2)]
    IN  Locale_remove_e_ret(el1[id2], id1)

RECURSIVE remove_incident(_, _, _)
\* the loop of Graph::remove_v over the collected incident edges; every
\* neighbour in `nbrs` is a vertex, so each remove_e(..).unwrap() is Ok
remove_incident(el, id, nbrs) ==
    IF nbrs = << >> THEN el
    ELSE remove_incident(Graph_remove_e(el, id, Head(nbrs)), id, Tail(nbrs))

\* the closing loop of Graph::add_v written as a single test: one step at most
advance_min_free_once(el, m) == IF m \in DOMAIN el THEN increment(m) ELSE m

RECURSIVE advance_min_free(_, _)
\* the while loop that closes Graph::add_v
advance_min_free(el, m) ==
    IF m \in DOMAIN el THEN advance_min_free(el, increment(m)) ELSE m

\* Graph::remove_v without the closing comparison: the lowest free id is kept
lower_min_free_never(m, id) == m

\* Graph::remove_v: the new value of min_free_vertex_id
lower_min_free(m, id) == IF m > id THEN id ELSE m

\* Locale::iter_incident_e: the chained key sets, in chaining order
Locale_incident_buckets(loc) ==
    IF family = "undirected" THEN << DOMAIN loc.edges >>
    ELSE << loc.edges.incoming, DOMAIN loc.edges.outgoing, DOMAIN loc.edges.undirected >>

\* all neighbour ids Locale::iter_incident_e produces
Locale_incident_ids(loc) ==
    LET b == Locale_incident_buckets(loc) IN UNION {b[i] : i \in 1 .. Len(b)}

\* The prefixes of the collected incident edges that Graph::remove_v can have
\* processed when remove_e(..).unwrap() meets its first Err: every bucket
\* chained before the first one holding an absent neighbour, and any part of
\* the present neighbours of that bucket (hash order within a bucket is free).
remove_v_panic_prefixes(el, id) ==
    LET b     == Locale_incident_buckets(el[id])
        bad   == {i \in 1 .. Len(b) : b[i] \ DOMAIN el # {}}
        k     == CHOOSE i \in bad : \A j \in bad : i <= j
        early == UNION {b[i] : i \in 1 .. (k - 1)}
    IN  {early \cup s : s \in SUBSET (b[k] \cap DOMAIN el)}

\* ----------------------------------------------------------- the machine
\* the value recorded for an argument or result that is not there
NoId == VertexId_default - 1

\* the record of the last public call and of what it returned
Call(op, id1, id2, directed, edge_id, status, flag, value) ==
    [op |-> op, id1 |-> id1, id2 |-> id2, directed |-> directed, edge_id |-> edge_id,
     status |-> status, flag |-> flag, value |-> value]

\* edge identifiers a caller passes to add_e (ignored by simple graphs)
EdgeIdArgs == {None}

\* a panic ends the program, and so does a call that never returns
Running == ret.status \notin {"Panic", "Diverge"}

\* Graph::new
Init ==
    /\ family \in {"undirected", "directed"}
    /\ edge_list = EmptyMap
    /\ min_free_vertex_id = VertexId_default
    /\ ret = Call("new", NoId, NoId, FALSE, None, "Ok", FALSE, NoId)

\* Graph::add_v written with entry(..).or_insert_with(..): a vertex that is
\* there keeps its locale
add_v_keep(id) ==
    /\ Running
    /\ is_some(id) \/ min_free_vertex_id <= MaxId
    /\ LET value == IF is_some(id) THEN id[1] ELSE min_free_vertex_id
           el    == IF value \in DOMAIN edge_list THEN edge_list
                    ELSE map_insert(edge_list, value, Locale_new(value))
       IN  /\ edge_list' = el
           /\ min_free_vertex_id' = advance_min_free(el, min_free_vertex_id)
           /\ ret' = Call("add_v", IF is_some(id) THEN id[1] ELSE NoId, NoId, FALSE, None,
                          "Ok", FALSE, value)
    /\ UNCHANGED family

\* Graph::add_v(id), id an Option
add_v(id) ==
    /\ Running
    /\ is_some(id) \/ min_free_vertex_id <= MaxId
    /\ LET value == IF is_some(id) THEN id[1] ELSE min_free_vertex_id
           el    == map_insert(edge_list, value, Locale_new(value))
       IN  /\ edge_list' = el
           /\ min_free_vertex_id' = advance_min_free(el, min_free_vertex_id)
           /\ ret' = Call("add_v", IF is_some(id) THEN id[1] ELSE NoId, NoId, FALSE, None,
                          "Ok", FALSE, value)
    /\ UNCHANGED family

\* add_e handing back the edge id the caller supplied
add_e_echo(id1, id2, directed, edge_id) ==
    /\ Running
    /\ IF contains_v(id1) /\ contains_v(id2)
       THEN /\ edge_list' = Graph_add_e(edge_list, id1, id2, directed)
            /\ ret' = Call("add_e", id1, id2, directed, edge_id, "Ok", FALSE,
                           IF is_some(edge_id) THEN edge_id[1] ELSE EdgeId_default)
       ELSE /\ edge_list' = edge_list
            /\ ret' = Call("add_e", id1, id2, directed, edge_id, "Err", FALSE, NoId)
    /\ UNCHANGED <<family, min_free_vertex_id>>

\* Graph::add_e written so that id1's locale is updated before id2 is looked up
add_e_half(id1, id2, directed, edge_id) ==
    /\ Running
    /\ IF contains_v(id1) /\ contains_v(id2)
       THEN /\ edge_list' = Graph_add_e(edge_list, id1, id2, directed)
            /\ ret' = Call("add_e", id1, id2, directed, edge_id, "Ok", FALSE, EdgeId_default)
       ELSE /\ edge_list' = IF contains_v(id1)
                            THEN [edge_list EXCEPT ![id1] = Locale_add_e(@, id2,
                                        IF directed THEN "Outgoing" ELSE "Undirected",
                                        directed \/ id1 <= id2)]
                            ELSE edge_list
            /\ ret' = Call("add_e", id1, id2, directed, edge_id, "Err", FALSE, NoId)
    /\ UNCHANGED <<family, min_free_vertex_id>>

\* Graph::add_e(id1, id2, directed, edge_id)
add_e(id1, id2, directed, edge_id) ==
    /\ Running
    /\ IF contains_v(id1) /\ contains_v(id2)
       THEN /\ edge_list' = Graph_add_e(edge_list, id1, id2, directed)
            /\ ret' = Call("add_e", id1, id2, directed, edge_id, "Ok", FALSE, EdgeId_default)
       ELSE /\ edge_list' = edge_list
            /\ ret' = Call("add_e", id1, id2, directed, edge_id, "Err", FALSE, NoId)
    /\ UNCHANGED <<family, min_free_vertex_id>>

\* Graph::remove_e(id1, id2, edge_id)
remove_e(id1, id2) ==
    /\ Running
    /\ IF contains_v(id1) /\ contains_v(id2)
       THEN /\ edge_list' = Graph_remove_e(edge_list, id1, id2)
            /\ ret' = Call("remove_e", id1, id2, FALSE, None, "Ok",
                           Graph_remove_e_ret(edge_list, id1, id2), NoId)
       ELSE /\ edge_list' = edge_list
            /\ ret' = Call("remove_e", id1, id2, FALSE, None, "Err", FALSE, NoId)
    /\ UNCHANGED <<family, min_free_vertex_id>>

\* Graph::remove_v(id)
remove_v(id) ==
    /\ Running
    /\ IF ~ contains_v(id)
       THEN /\ UNCHANGED <<edge_list, min_free_vertex_id>>
            /\ ret' = Call("remove_v", id, NoId, FALSE, None, "Ok", FALSE, NoId)
       ELSE IF Locale_incident_ids(edge_list[id]) \subseteq DOMAIN edge_list
       THEN /\ edge_list' = map_remove(
                    remove_incident(edge_list, id, Locale_iter_incident_e(edge_list[id])), id)
            /\ min_free_vertex_id' = lower_min_free(min_free_vertex_id, id)
            /\ ret' = Call("remove_v", id, NoId, FALSE, None, "Ok", TRUE, NoId)
       ELSE /\ \E done \in remove_v_panic_prefixes(edge_list, id) :
                    edge_list' = remove_incident(edge_list, id, SetToSeq(done))
            /\ UNCHANGED min_free_vertex_id
            /\ ret' = Call("remove_v", id, NoId, FALSE, None, "Panic", FALSE, NoId)
    /\ UNCHANGED family

Next ==
    \/ \E id \in {None} \cup {Some(v) : v \in VertexIds} : add_v(id)
    \/ \E id1 \in VertexIds, id2 \in VertexIds, directed \in BOOLEAN, edge_id \in EdgeIdArgs :
            add_e(id1, id2, directed, edge_id)
    \/ \E id1 \in VertexIds, id2 \in VertexIds : remove_e(id1, id2)
    \/ \E id \in VertexIds : remove_v(id)

Spec == Init /\ [][Next]_vars

\* ------------------------------------------- Graph with VertexIdType = u8
\* u8::MAX, the largest identifier of the narrowest type Id is implemented for
u8_MAX == 255

\* <u8 as Id>::increment, built without overflow checks: add_assign(1) wraps
increment_wrapping(x) == (x + 1) % (u8_MAX + 1)

RECURSIVE advance_min_free_u8(_, _, _)
\* The while loop that closes Graph::add_v, for u8 identifiers.  At u8::MAX
\* the increment panics in a build with overflow checks and wraps in a build
\* without them; after wrapping the loop goes on, and never ends when every
\* identifier of the type is a vertex.
advance_min_free_u8(el, m, overflow_checks) ==
    IF m \notin DOMAIN el THEN [status |-> "Ok", m |-> m]
    ELSE IF m < u8_MAX THEN advance_min_free_u8(el, increment(m), overflow_checks)
    ELSE IF overflow_checks THEN [status |-> "Panic", m |-> m]
    ELSE IF \A i \in VertexId_default .. u8_MAX : i \in DOMAIN el
         THEN [status |-> "Diverge", m |-> increment_wrapping(m)]
         ELSE advance_min_free_u8(el, increment_wrapping(m), overflow_checks)

\* identifiers a caller of the u8 graph passes explicitly: both ends of the type
U8Args == {VertexId_default, u8_MAX}

\* Graph::add_v(id) with VertexIdType = u8; the build decides what an
\* overflowing increment does
add_v_u8(id) ==
    /\ Running
    /\ \E overflow_checks \in BOOLEAN :
        LET value == IF is_some(id) THEN id[1] ELSE min_free_vertex_id
            el    == map_insert(edge_list, value, Locale_new(value))
            adv   == advance_min_free_u8(el, min_free_vertex_id, overflow_checks)
        IN  /\ edge_list' = el
            /\ min_free_vertex_id' = adv.m
            /\ ret' = Call("add_v", IF is_some(id) THEN id[1] ELSE NoId, NoId, FALSE, None,
                           adv.status, FALSE, value)
    /\ UNCHANGED family

NextU8 ==
    \/ \E id \in {None} \cup {Some(v) : v \in U8Args} : add_v_u8(id)
    \/ \E id \in U8Args : remove_v(id)

SpecU8 == Init /\ [][NextU8]_vars

\* ------------------------------------- Graph with vertex attributes in use
\* Largest number of attributes a caller keeps in one collection.
MaxAttrs == 1

\* DynamicDispatchAttributeMap::insert on a collection held as the number of
\* its keys: the sizes it can have afterwards (a key that is there is
\* overwritten, a new key is added)
AttributeMap_insert(c) == {c + 1} \cup (IF c > AttributeCollection_new THEN {c} ELSE {})

\* CrabNetsResult: Ok(value)
Ok(value) == [status |-> "Ok", value |-> value]

\* CrabNetsResult: Err(CrabNetsError)
Err == [status |-> "Err", value |-> NoId]

\* Graph::v_attrs on a given edge list
Graph_v_attrs(el, id) == IF id \in DOMAIN el THEN Ok(el[id].attributes) ELSE Err

\* Graph::v_degree on a given edge list
Graph_v_degree(el, id) == IF id \in DOMAIN el THEN Ok(Locale_count_neighbours(el[id])) ELSE Err

\* Graph::v_degree_in on a given edge list
Graph_v_degree_in(el, id) ==
    IF id \in DOMAIN el THEN Ok(Locale_count_neighbours_in(el[id])) ELSE Err

\* Graph::v_degree_out on a given edge list
Graph_v_degree_out(el, id) ==
    IF id \in DOMAIN el THEN Ok(Locale_count_neighbours_out(el[id])) ELSE Err

\* Graph::v_degree_undir on a given edge list
Graph_v_degree_undir(el, id) ==
    IF id \in DOMAIN el THEN Ok(Locale_count_neighbours_undir(el[id])) ELSE Err

\* a write through v_attrs_mut(id) that lands in every vertex's collection
v_attrs_mut_all(id) ==
    /\ Running
    /\ IF contains_v(id)
       THEN /\ \E c \in AttributeMap_insert(edge_list[id].attributes) :
                    /\ c <= MaxAttrs
                    /\ edge_list' = [v \in DOMAIN edge_list |->
                                        [edge_list[v] EXCEPT !.attributes = c]]
            /\ ret' = Call("v_attrs_mut", id, NoId, FALSE, None, "Ok", FALSE, NoId)
       ELSE /\ edge_list' = edge_list
            /\ ret' = Call("v_attrs_mut", id, NoId, FALSE, None, "Err", FALSE, NoId)
    /\ UNCHANGED <<family, min_free_vertex_id>>

\* Graph::v_attrs_mut(id), and the caller's insert through the reference it
\* returns
v_attrs_mut(id) ==
    /\ Running
    /\ IF contains_v(id)
       THEN /\ \E c \in AttributeMap_insert(edge_list[id].attributes) :
                    /\ c <= MaxAttrs
                    /\ edge_list' = [edge_list EXCEPT ![id].attributes = c]
            /\ ret' = Call("v_attrs_mut", id, NoId, FALSE, None, "Ok", FALSE, NoId)
       ELSE /\ edge_list' = edge_list
            /\ ret' = Call("v_attrs_mut", id, NoId, FALSE, None, "Err", FALSE, NoId)
    /\ UNCHANGED <<family, min_free_vertex_id>>

NextV ==
    \/ \E id \in {None} \cup {Some(v) : v \in VertexIds} : add_v(id)
    \/ \E id1 \in VertexIds, id2 \in VertexIds, directed \in BOOLEAN, edge_id \in EdgeIdArgs :
            add_e(id1, id2, directed, edge_id)
    \/ \E id1 \in VertexIds, id2 \in VertexIds : remove_e(id1, id2)
    \/ \E id \in VertexIds : remove_v(id)
    \/ \E id \in VertexIds : v_attrs_mut(id)

SpecV == Init /\ [][NextV]_vars

\* --------------------------------------------------------- topology tests
\* Largest vertex identifier a caller of the topology tests passes explicitly.
TopoMaxId == 2

TopoIds == 0 .. TopoMaxId

\* the result of a topology test: the returned bool, or a panic
Returned(flag) == [status |-> "Ok", flag |-> flag]

Panicked == [status |-> "Panic", flag |-> FALSE]

\* the orders a hash set or key set can be iterated in
Perms(S) == {q \in [1 .. Cardinality(S) -> S] : \A i, j \in DOMAIN q : q[i] = q[j] => i = j}

\* Graph::iter_adjacent_out(id).unwrap().chain(Graph::iter_adjacent_undir(id).unwrap()):
\* the orders in which the chained iterators can produce the neighbours
adjacent_out_undir(el, id) ==
    {a \o b : a \in Perms(Locale_neighbours_out(el[id])),
              b \in Perms(Locale_neighbours_undir(el[id]))}

\* Graph::iter_adjacent_undir(id).unwrap().chain(Graph::iter_adjacent_out(id).unwrap())
adjacent_undir_out(el, id) ==
    {a \o b : a \in Perms(Locale_neighbours_undir(el[id])),
              b \in Perms(Locale_neighbours_out(el[id]))}

\* Locale::iter_adjacent: every neighbour, whatever the relation
Locale_iter_adjacent(loc) == Locale_iter_incident_e(loc)

\* one iteration order per vertex, for a test that iterates a vertex twice
RECURSIVE orders_over(_, _)
orders_over(adjacent, vs) ==
    IF vs = {} THEN {EmptyMap}
    ELSE LET v == CHOOSE x \in vs : TRUE
         IN  {(v :> a) @@ o : a \in adjacent[v], o \in orders_over(adjacent, vs \ {v})}

\* the orders of iter_adjacent_out(v).chain(iter_adjacent_undir(v)), all v
AdjacencyOrders_out_undir(el) ==
    orders_over([v \in DOMAIN el |-> adjacent_out_undir(el, v)], DOMAIN el)

\* the orders of iter_adjacent_undir(v).chain(iter_adjacent_out(v)), all v
AdjacencyOrders_undir_out(el) ==
    orders_over([v \in DOMAIN el |-> adjacent_undir_out(el, v)], DOMAIN el)

Min(a, b) == IF a <= b THEN a ELSE b

RECURSIVE bfs_run(_, _, _, _)
\* the while loop of Graph::is_connected, with the number of entries that
\* have been put on the queue
bfs_run(el, unvisited_vertices, visited_vertices, pushed) ==
    IF unvisited_vertices = << >>
    THEN [status |-> "Ok", flag |-> Cardinality(visited_vertices) = count_v_in(el),
          pushed |-> pushed]
    ELSE LET curr_vertex_id == Head(unvisited_vertices)
             visited        == visited_vertices \cup {curr_vertex_id}
         IN  IF curr_vertex_id \notin DOMAIN el
             THEN [status |-> "Panic", flag |-> FALSE, pushed |-> pushed]
             ELSE LET more == SelectSeq(Locale_iter_adjacent(el[curr_vertex_id]),
                                        LAMBDA x : x \notin visited)
                  IN  bfs_run(el, Tail(unvisited_vertices) \o more, visited,
                              pushed + Len(more))

\* the while loop of Graph::is_connected: what the call returns
bfs_is_connected(el, unvisited_vertices, visited_vertices) ==
    LET run == bfs_run(el, unvisited_vertices, visited_vertices, Len(unvisited_vertices))
    IN  [status |-> run.status, flag |-> run.flag]

\* Graph::is_connected started at the vertex iter_v().next() produced
is_connected_from(el, start) == bfs_is_connected(el, << start >>, {})

\* a finishing step that leaves the back link of the finished vertex as it is
fold_back_links_none(adjacent, back_links, curr_back_link) == curr_back_link

RECURSIVE fold_back_links(_, _, _)
\* the for loop of the branch that pops a visited vertex: the lowest back
\* link among the adjacent vertices and the vertex itself
fold_back_links(adjacent, back_links, curr_back_link) ==
    IF adjacent = << >> THEN curr_back_link
    ELSE fold_back_links(Tail(adjacent), back_links,
                         Min(back_links[Head(adjacent)], curr_back_link))

RECURSIVE visit_adjacent(_, _, _, _, _)
\* the for loop of the branch that visits a vertex: a visited neighbour sets
\* the back link, an unvisited one is pushed
visit_adjacent(adjacent, st, curr, back_link, stack) ==
    IF adjacent = << >> THEN [back_link |-> back_link, stack |-> stack]
    ELSE LET a == Head(adjacent)
         IN  IF a \in st.visited_vertices
             THEN visit_adjacent(Tail(adjacent), st, curr,
                                 Min(st.indices[curr], st.indices[a]), stack)
             ELSE visit_adjacent(Tail(adjacent), st, curr, back_link, Append(stack, a))

RECURSIVE dfs_run(_, _, _, _)
\* the while loop of Graph::is_strongly_connected, with the number of
\* entries that have been put on the stack and the place the loop was left at
dfs_run(el, ord, st, pushed) ==
    IF st.dfs_stack = << >>
    THEN [status |-> "Ok", flag |-> Cardinality(st.visited_vertices) = count_v_in(el),
          exit |-> "end", pushed |-> pushed]
    ELSE LET curr == st.dfs_stack[Len(st.dfs_stack)]
             rest == SubSeq(st.dfs_stack, 1, Len(st.dfs_stack) - 1)
             panic == [status |-> "Panic", flag |-> FALSE, exit |-> "panic",
                       pushed |-> pushed]
         IN  IF curr \in st.visited_vertices
             THEN IF \E a \in Range(ord[curr]) : a \notin DOMAIN st.back_links
                  THEN panic
                  ELSE LET link == fold_back_links(ord[curr], st.back_links,
                                                   st.back_links[curr])
                       IN  IF link = st.indices[curr] /\ rest # << >>
                           THEN [status |-> "Ok", flag |-> FALSE, exit |-> "early",
                                 pushed |-> pushed]
                           ELSE dfs_run(el, ord,
                                    [st EXCEPT !.dfs_stack = rest,
                                               !.back_links = map_insert(@, curr, link)],
                                    pushed)
             ELSE IF curr \notin DOMAIN el THEN panic
             ELSE LET seen == [st EXCEPT
                                !.visited_vertices = @ \cup {curr},
                                !.indices    = map_insert(@, curr, st.curr_index),
                                !.back_links = map_insert(@, curr, st.curr_index),
                                !.curr_index = @ + 1]
                      done == visit_adjacent(ord[curr], seen, curr, st.curr_index,
                                             st.dfs_stack)
                  IN  dfs_run(el, ord,
                            [seen EXCEPT !.dfs_stack = done.stack,
                                         !.back_links = map_insert(@, curr, done.back_link)],
                            pushed + Len(done.stack) - Len(st.dfs_stack))

\* the while loop of Graph::is_strongly_connected: what the call returns
dfs_is_strongly_connected(el, ord, st) ==
    LET run == dfs_run(el, ord, st, Len(st.dfs_stack))
    IN  [status |-> run.status, flag |-> run.flag]

\* the tables of Graph::is_strongly_connected before its while loop
dfs_start(start) ==
    [dfs_stack |-> << start >>, curr_index |-> 0, indices |-> EmptyMap,
     back_links |-> EmptyMap, visited_vertices |-> {}]

\* Graph::is_strongly_connected started at the vertex iter_v().next()
\* produced, the neighbours of each vertex iterated in the order ord gives
is_strongly_connected_from(el, start, ord) ==
    dfs_is_strongly_connected(el, ord, dfs_start(start))

\* the vertex count up to which has_hamiltonian_path searches by brute force
BruteforceLimit == 10

\* Hints: the flags a caller can give
HintFlags == {"LOW_TREEWIDTH"}

RECURSIVE push_unvisited(_, _, _)
\* the for loop of has_hamiltonian_path_bruteforce: every neighbour that is
\* not on the current path is pushed with the path extended by it
push_unvisited(adjacent, curr_visited, dfs_stack) ==
    IF adjacent = << >> THEN dfs_stack
    ELSE push_unvisited(Tail(adjacent), curr_visited,
            IF Head(adjacent) \in curr_visited THEN dfs_stack
            ELSE Append(dfs_stack, [id      |-> Head(adjacent),
                                    visited |-> curr_visited \cup {Head(adjacent)}]))

RECURSIVE dfs_hamiltonian(_, _, _)
\* the while loop of has_hamiltonian_path_bruteforce for one start vertex;
\* Returned(FALSE) stands for the stack running empty
dfs_hamiltonian(el, ord, dfs_stack) ==
    IF dfs_stack = << >> THEN Returned(FALSE)
    ELSE LET top  == dfs_stack[Len(dfs_stack)]
             rest == SubSeq(dfs_stack, 1, Len(dfs_stack) - 1)
         IN  IF Cardinality(top.visited) = count_v_in(el) THEN Returned(TRUE)
             ELSE IF top.id \notin DOMAIN el THEN Panicked
             ELSE dfs_hamiltonian(el, ord, push_unvisited(ord[top.id], top.visited, rest))

RECURSIVE has_hamiltonian_path_bruteforce(_, _, _)
\* has_hamiltonian_path_bruteforce, the start vertices taken in the order
\* iter_v produced them
has_hamiltonian_path_bruteforce(el, starts, ord) ==
    IF starts = << >> THEN Returned(FALSE)
    ELSE LET found == dfs_hamiltonian(el, ord,
                        << [id |-> Head(starts), visited |-> {Head(starts)}] >>)
         IN  IF found = Returned(FALSE)
             THEN has_hamiltonian_path_bruteforce(el, Tail(starts), ord)
             ELSE found

\* Graph::has_hamiltonian_path; the approaches for more than ten vertices
\* are unimplemented!()
has_hamiltonian_path_of(el, given_hints, that_are_forced, starts, ord) ==
    IF count_v_in(el) = 0 THEN Returned(TRUE)
    ELSE IF count_v_in(el) <= BruteforceLimit
    THEN has_hamiltonian_path_bruteforce(el, starts, ord)
    ELSE Panicked

\* Graph::is_connected()
is_connected ==
    /\ Running
    /\ \E out \in (IF edge_list = EmptyMap THEN {Returned(TRUE)}
                   ELSE {is_connected_from(edge_list, start) : start \in DOMAIN edge_list}) :
            ret' = Call("is_connected", NoId, NoId, FALSE, None, out.status, out.flag, NoId)
    /\ UNCHANGED <<family, edge_list, min_free_vertex_id>>

\* Graph::is_strongly_connected()
is_strongly_connected ==
    /\ Running
    /\ \E out \in (IF edge_list = EmptyMap THEN {Returned(TRUE)}
                   ELSE {is_strongly_connected_from(edge_list, start, ord) :
                            start \in DOMAIN edge_list,
                            ord \in AdjacencyOrders_out_undir(edge_list)}) :
            ret' = Call("is_strongly_connected", NoId, NoId, FALSE, None,
                        out.status, out.flag, NoId)
    /\ UNCHANGED <<family, edge_list, min_free_vertex_id>>

\* Graph::has_hamiltonian_path(given_hints, that_are_forced)
has_hamiltonian_path(given_hints, that_are_forced) ==
    /\ Running
    /\ \E out \in {has_hamiltonian_path_of(edge_list, given_hints, that_are_forced,
                                            starts, ord) :
                        starts \in Perms(DOMAIN edge_list),
                        ord \in AdjacencyOrders_undir_out(edge_list)} :
            ret' = Call("has_hamiltonian_path", NoId, NoId, that_are_forced, None,
                        out.status, out.flag, NoId)
    /\ UNCHANGED <<family, edge_list, min_free_vertex_id>>

NextT ==
    \/ \E id \in {None} \cup {Some(v) : v \in VertexIds} : add_v(id)
    \/ \E id1 \in VertexIds, id2 \in VertexIds, directed \in BOOLEAN, edge_id \in EdgeIdArgs :
            add_e(id1, id2, directed, edge_id)
    \/ \E id1 \in VertexIds, id2 \in VertexIds : remove_e(id1, id2)
    \/ \E id \in VertexIds : remove_v(id)
    \/ is_connected
    \/ is_strongly_connected

SpecT == Init /\ [][NextT]_vars

\* the mutators on three vertex ids, the edges all added with directed = false,
\* and the Hamiltonian path test
NextH ==
    \/ \E id \in {None} \cup {Some(v) : v \in TopoIds} : add_v(id)
    \/ \E id1 \in TopoIds, id2 \in TopoIds, directed \in {FALSE}, edge_id \in EdgeIdArgs :
            add_e(id1, id2, directed, edge_id)
    \/ \E id1 \in TopoIds, id2 \in TopoIds : remove_e(id1, id2)
    \/ \E id \in TopoIds : remove_v(id)
    \/ \E given_hints \in SUBSET HintFlags, that_are_forced \in BOOLEAN :
            has_hamiltonian_path(given_hints, that_are_forced)

SpecH == Init /\ [][NextH]_vars

\* ------------------------------------------------- edge attribute writes
\* the caller's write through the &mut returned by
\* SimpleUndirectedLocale::e_attrs_mut
SimpleUndirectedLocale_e_attrs_write(loc, id2, c) ==
    [loc EXCEPT !.edges[id2] = Some(c)]

\* the caller's write through the &mut returned by
\* SimpleDirectedLocale::e_attrs_mut
SimpleDirectedLocale_e_attrs_write(loc, id2, c) ==
    IF id2 \in DOMAIN loc.edges.outgoing
    THEN [loc EXCEPT !.edges.outgoing[id2] = c]
    ELSE [loc EXCEPT !.edges.undirected[id2] = Some(c)]

\* Locale::e_attrs_mut followed by the caller's write
Locale_e_attrs_write(loc, id2, c) ==
    IF family = "undirected" THEN SimpleUndirectedLocale_e_attrs_write(loc, id2, c)
    ELSE SimpleDirectedLocale_e_attrs_write(loc, id2, c)

\* Graph::e_attrs(id1, id2, edge_id) as a result
Graph_e_attrs(el, id1, id2) ==
    LET got == e_attrs_in(el, id1, id2)
    IN  IF got.status = "Ok" THEN Ok(got.attrs[1]) ELSE [status |-> got.status]

\* Graph::e_attrs_mut(id1, id2, edge_id) and an insert into the collection
\* it returns; the inserted collection is recorded as the call's value
e_attrs_mut(id1, id2) ==
    /\ Running
    /\ LET got   == e_attrs_in(edge_list, id1, id2)
           other == IF got.owner = id1 THEN id2 ELSE id1
       IN  IF got.status = "Ok"
           THEN \E c \in AttributeMap_insert(got.attrs[1]) :
                    /\ c <= MaxAttrs
                    /\ edge_list' = [edge_list EXCEPT ![got.owner] =
                                        Locale_e_attrs_write(@, other, c)]
                    /\ ret' = Call("e_attrs_mut", id1, id2, FALSE, None, "Ok", FALSE, c)
           ELSE /\ edge_list' = edge_list
                /\ ret' = Call("e_attrs_mut", id1, id2, FALSE, None, got.status, FALSE, NoId)
    /\ UNCHANGED <<family, min_free_vertex_id>>

NextE ==
    \/ \E id \in {None} \cup {Some(v) : v \in VertexIds} : add_v(id)
    \/ \E id1 \in VertexIds, id2 \in VertexIds, directed \in BOOLEAN, edge_id \in EdgeIdArgs :
            add_e(id1, id2, directed, edge_id)
    \/ \E id1 \in VertexIds, id2 \in VertexIds : remove_e(id1, id2)
    \/ \E id \in VertexIds : remove_v(id)
    \/ \E id1 \in VertexIds, id2 \in VertexIds : e_attrs_mut(id1, id2)

SpecE == Init /\ [][NextE]_vars

\* ------------------------------------------------- supplied edge ids
\* the edge_id arguments a caller passes to add_e: None, or Some(30) as in
\* the test of the directed graph
SuppliedEdgeIds == {None, Some(30)}

NextI ==
    \/ \E id \in {None} \cup {Some(v) : v \in VertexIds} : add_v(id)
    \/ \E id1 \in VertexIds, id2 \in VertexIds, directed \in BOOLEAN,
          edge_id \in SuppliedEdgeIds :
            add_e(id1, id2, directed, edge_id)
    \/ \E id1 \in VertexIds, id2 \in VertexIds : remove_e(id1, id2)
    \/ \E id \in VertexIds : remove_v(id)

SpecI == Init /\ [][NextI]_vars

\* ------------------------------------------------- a locale on its own
\* SimpleUndirectedLocale::remove_neighbour : the locale afterwards
SimpleUndirectedLocale_remove_neighbour(loc, id2) ==
    [loc EXCEPT !.edges = map_remove(@, id2)]

\* SimpleUndirectedLocale::remove_neighbour : the returned flag
SimpleUndirectedLocale_remove_neighbour_ret(loc, id2) == id2 \in DOMAIN loc.edges

\* SimpleDirectedLocale::remove_neighbour : the locale afterwards
SimpleDirectedLocale_remove_neighbour(loc, id2) ==
    [loc EXCEPT !.edges = SimpleEdgeCollection_purge(@, id2)]

\* SimpleDirectedLocale::remove_neighbour : the returned flag
SimpleDirectedLocale_remove_neighbour_ret(loc, id2) ==
    \/ id2 \in loc.edges.incoming
    \/ id2 \in DOMAIN loc.edges.outgoing
    \/ id2 \in DOMAIN loc.edges.undirected

\* Locale::remove_neighbour (state)
Locale_remove_neighbour(loc, id2) ==
    IF family = "undirected" THEN SimpleUndirectedLocale_remove_neighbour(loc, id2)
    ELSE SimpleDirectedLocale_remove_neighbour(loc, id2)

\* Locale::remove_neighbour (returned flag)
Locale_remove_neighbour_ret(loc, id2) ==
    IF family = "undirected" THEN SimpleUndirectedLocale_remove_neighbour_ret(loc, id2)
    ELSE SimpleDirectedLocale_remove_neighbour_ret(loc, id2)

\* EdgeToVertexRelation
EdgeToVertexRelation == {"Incoming", "Outgoing", "Undirected"}

\* the locale the calls below act on, kept under its own vertex id
the_locale == edge_list[VertexId_default]

\* LocaleType::new(0): a locale that is not part of a graph
InitL ==
    /\ family \in {"undirected", "directed"}
    /\ edge_list = map_insert(EmptyMap, VertexId_default, Locale_new(VertexId_default))
    /\ min_free_vertex_id = VertexId_default
    /\ ret = Call("new", NoId, NoId, FALSE, None, "Ok", FALSE, NoId)

\* a direct call of Locale::add_e
locale_add_e(id2, relation, edge_id, store_edge_attributes) ==
    /\ edge_list' = [edge_list EXCEPT ![VertexId_default] =
                        Locale_add_e(@, id2, relation, store_edge_attributes)]
    /\ ret' = Call("Locale::add_e", VertexId_default, id2, store_edge_attributes, edge_id,
                   "Ok", FALSE, EdgeId_default)
    /\ UNCHANGED <<family, min_free_vertex_id>>

\* a direct call of Locale::remove_e
locale_remove_e(id2) ==
    /\ edge_list' = [edge_list EXCEPT ![VertexId_default] = Locale_remove_e(@, id2)]
    /\ ret' = Call("Locale::remove_e", VertexId_default, id2, FALSE, None,
                   "Ok", Locale_remove_e_ret(the_locale, id2), NoId)
    /\ UNCHANGED <<family, min_free_vertex_id>>

\* a direct call of Locale::remove_neighbour
locale_remove_neighbour(id2) ==
    /\ edge_list' = [edge_list EXCEPT ![VertexId_default] = Locale_remove_neighbour(@, id2)]
    /\ ret' = Call("Locale::remove_neighbour", VertexId_default, id2, FALSE, None,
                   "Ok", Locale_remove_neighbour_ret(the_locale, id2), NoId)
    /\ UNCHANGED <<family, min_free_vertex_id>>

NextL ==
    \/ \E id2 \in VertexIds, relation \in EdgeToVertexRelation, edge_id \in EdgeIdArgs,
          store_edge_attributes \in BOOLEAN :
            locale_add_e(id2, relation, edge_id, store_edge_attributes)
    \/ \E id2 \in VertexIds : locale_remove_e(id2)
    \/ \E id2 \in VertexIds : locale_remove_neighbour(id2)

SpecL == InitL /\ [][NextL]_vars

\* the mutators on three vertex ids, the edges all added with directed = true
\* (undirected edges in the undirected family), and the strong connectivity
\* test
NextS ==
    \/ \E id \in {None} \cup {Some(v) : v \in TopoIds} : add_v(id)
    \/ \E id1 \in TopoIds, id2 \in TopoIds, directed \in {TRUE}, edge_id \in EdgeIdArgs :
            add_e(id1, id2, directed, edge_id)
    \/ \E id1 \in TopoIds, id2 \in TopoIds : remove_e(id1, id2)
    \/ \E id \in TopoIds : remove_v(id)
    \/ is_strongly_connected

SpecS == Init /\ [][NextS]_vars

\* ------------------------------------------ a graph of seven vertices
BfsVertices == 7

\* the undirected edges the caller adds
BfsEdges ==
    { << 0, 3 >>, << 0, 4 >>, << 0, 6 >>, << 1, 2 >>, << 1, 3 >>, << 1, 4 >>, << 1, 5 >>,
      << 2, 3 >>, << 2, 4 >>, << 2, 5 >> }

\* vertices added one after the other under the smallest free id, undirected
\* edges among them, and the connectivity test
NextB ==
    \/ \E id \in {Some(v) : v \in {min_free_vertex_id} \cap (0 .. BfsVertices - 1)} :
            add_v(id)
    \/ \E e \in BfsEdges, directed \in {FALSE}, edge_id \in EdgeIdArgs :
            add_e(e[1], e[2], directed, edge_id)
    \/ is_connected

SpecB == Init /\ [][NextB]_vars

\* ------------------------------------- vertex and edge attributes together
\* the mutators of Graph with the writes through v_attrs_mut and e_attrs_mut
NextF ==
    \/ \E id \in {None} \cup {Some(v) : v \in VertexIds} : add_v(id)
    \/ \E id1 \in VertexIds, id2 \in VertexIds, directed \in BOOLEAN, edge_id \in EdgeIdArgs :
            add_e(id1, id2, directed, edge_id)
    \/ \E id1 \in VertexIds, id2 \in VertexIds : remove_e(id1, id2)
    \/ \E id \in VertexIds : remove_v(id)
    \/ \E id \in VertexIds : v_attrs_mut(id)
    \/ \E id1 \in VertexIds, id2 \in VertexIds : e_attrs_mut(id1, id2)

SpecF == Init /\ [][NextF]_vars

\* ------------------------------------------------------------ GNBS reader
\* bounds of the documents read: lines per document, attribute declarations
\* of one kind, value tokens on a vertex or edge line
MaxLines == 5
MaxDecl == 2
MaxValues == 1

\* DocumentState
DocumentState == <<"ExpectingVertexAttributeOrEdgeAttributeOrVertex",
                   "ExpectingVertexOrEdgeAttributeOrEdge",
                   "ExpectingEdge">>

\* DeclarationSpecifierName; "?" stands for a line tokenise_line rejects
DeclarationSpecifierName == {"AV", "AE", "V", "A", "E", "Comment", "?"}

\* the value tokens of a vertex or edge line: Token::Empty (X), a token that
\* parse_value converts to the declared type, and one that it rejects
ValueTokens == {"Empty", "Value", "Mismatch"}

RECURSIVE ValueSeqs(_)
ValueSeqs(n) ==
    IF n = 0 THEN {<<>>}
    ELSE ValueSeqs(n - 1)
         \cup {Append(s, t) : s \in {q \in ValueSeqs(n - 1) : Len(q) = n - 1}, t \in ValueTokens}

\* a line of the document as tokenise_line and the parse_ functions see it
Line(specifier, id1, id2, values) ==
    [specifier |-> specifier, id1 |-> id1, id2 |-> id2, values |-> values]

Lines ==
    {Line(s, NoId, NoId, <<>>) : s \in {"AV", "AE", "Comment", "?"}}
    \cup {Line("V", id, NoId, vs) : id \in VertexIds, vs \in ValueSeqs(MaxValues)}
    \cup {Line(s, id1, id2, vs) : s \in {"A", "E"}, id1 \in VertexIds, id2 \in VertexIds,
                                  vs \in ValueSeqs(MaxValues)}

\* the locals of read_graph, the line just consumed and the declarations
\* accepted so far
Reading(state, vertex_attributes, edge_attributes, line_number, line, status, declared, seen) ==
    [op |-> "read_graph", state |-> state, vertex_attributes |-> vertex_attributes,
     edge_attributes |-> edge_attributes, line_number |-> line_number, line |-> line,
     status |-> status, declared |-> declared, seen |-> seen]

\* read_graph up to its loop: G::default() and the initial locals
InitG ==
    /\ family \in {"undirected", "directed"}
    /\ edge_list = EmptyMap
    /\ min_free_vertex_id = VertexId_default
    /\ ret = Reading(DocumentState[1], 0, 0, 0, Line("Comment", NoId, NoId, <<>>),
                     "Reading", {}, {})

\* parse_vertex_declaration / parse_edge_declaration: the token count, then
\* parse_value on every value token
parse_declaration(values, attributes) ==
    /\ Len(values) = attributes
    /\ \A i \in 1 .. Len(values) : values[i] # "Mismatch"

\* the attribute tokens a declaration hands over: Token::Empty gives none
attribute_tokens(values) == Cardinality({i \in 1 .. Len(values) : values[i] = "Value"})

\* io_reader_callback called n times on a collection holding c attributes
RECURSIVE io_reader_callbacks(_, _)
io_reader_callbacks(c, n) ==
    IF n = 0 THEN {c}
    ELSE UNION {io_reader_callbacks(d, n - 1) : d \in AttributeMap_insert(c)}

\* the body of the V arm after the state assignment
read_vertex(r, el, mfv, line) ==
    IF ~ parse_declaration(line.values, r.vertex_attributes)
    THEN {[status |-> "Err", edge_list |-> el, min_free_vertex_id |-> mfv]}
    ELSE LET added == map_insert(el, line.id1, Locale_new(line.id1))
         IN  {[status |-> "Reading",
               edge_list |-> [added EXCEPT ![line.id1].attributes = c],
               min_free_vertex_id |-> advance_min_free(added, mfv)]
                : c \in io_reader_callbacks(added[line.id1].attributes,
                                            attribute_tokens(line.values))}

\* the body of the A and E arms after the state assignment
read_edge(r, el, mfv, line) ==
    IF ~ parse_declaration(line.values, r.edge_attributes)
    THEN {[status |-> "Err", edge_list |-> el, min_free_vertex_id |-> mfv]}
    ELSE IF ~ (line.id1 \in DOMAIN el /\ line.id2 \in DOMAIN el)
    THEN {[status |-> "Err", edge_list |-> el, min_free_vertex_id |-> mfv]}
    ELSE LET added == Graph_add_e(el, line.id1, line.id2, line.specifier = "A")
             got   == e_attrs_in(added, line.id1, line.id2)
             other == IF got.owner = line.id1 THEN line.id2 ELSE line.id1
         IN  IF attribute_tokens(line.values) = 0
             THEN {[status |-> "Reading", edge_list |-> added, min_free_vertex_id |-> mfv]}
             ELSE IF got.status # "Ok"
             THEN {[status |-> "Panic", edge_list |-> added, min_free_vertex_id |-> mfv]}
             ELSE {[status |-> "Reading",
                    edge_list |-> [added EXCEPT ![got.owner] =
                                        Locale_e_attrs_write(@, other, c)],
                    min_free_vertex_id |-> mfv]
                     : c \in io_reader_callbacks(got.attrs[1], attribute_tokens(line.values))}

\* a reader whose document state never leaves the first phase
next_state_first(state, specifier) == DocumentState[1]

\* the document state after the match on the declaration specifier
next_state(state, specifier) ==
    CASE specifier = "V" /\ state \in {DocumentState[1], DocumentState[2]} -> DocumentState[2]
      [] specifier \in {"A", "E"} /\ state \in {DocumentState[2], DocumentState[3]}
            -> DocumentState[3]
      [] OTHER -> state

\* one iteration of the loop of read_graph
read_graph_line(line) ==
    /\ ret.op = "read_graph" /\ ret.status = "Reading"
    /\ ret.line_number < MaxLines
    /\ line.specifier \in {"AV"} => ret.vertex_attributes < MaxDecl
    /\ line.specifier \in {"AE"} => ret.edge_attributes < MaxDecl
    /\ LET state == ret.state
           same  == [status |-> "Reading", edge_list |-> edge_list,
                     min_free_vertex_id |-> min_free_vertex_id]
           fails == [same EXCEPT !.status = "Err"]
           outs  ==
              CASE line.specifier = "?" -> {fails}
                [] line.specifier = "Comment" -> {same}
                [] line.specifier = "AV" ->
                      IF state = DocumentState[1] THEN {same} ELSE {fails}
                [] line.specifier = "AE" ->
                      IF state \in {DocumentState[1], DocumentState[2]} THEN {same} ELSE {fails}
                [] line.specifier = "V" ->
                      IF state \in {DocumentState[1], DocumentState[2]}
                      THEN read_vertex(ret, edge_list, min_free_vertex_id, line)
                      ELSE {fails}
                [] line.specifier \in {"A", "E"} ->
                      IF state \in {DocumentState[2], DocumentState[3]}
                      THEN read_edge(ret, edge_list, min_free_vertex_id, line)
                      ELSE {fails}
       IN  \E out \in outs :
            /\ edge_list' = out.edge_list
            /\ min_free_vertex_id' = out.min_free_vertex_id
            /\ ret' = Reading(next_state(state, line.specifier),
                        IF line.specifier = "AV" /\ out.status = "Reading"
                        THEN ret.vertex_attributes + 1 ELSE ret.vertex_attributes,
                        IF line.specifier = "AE" /\ out.status = "Reading"
                        THEN ret.edge_attributes + 1 ELSE ret.edge_attributes,
                        ret.line_number + 1, line, out.status,
                        IF line.specifier = "V" /\ out.status = "Reading"
                        THEN ret.declared \cup {line.id1} ELSE ret.declared,
                        IF out.status = "Reading" /\ line.specifier # "Comment"
                        THEN ret.seen \cup {line.specifier} ELSE ret.seen)
    /\ UNCHANGED family

\* the end of the input: Ok(new_graph)
read_graph_end ==
    /\ ret.op = "read_graph" /\ ret.status = "Reading"
    /\ ret' = [ret EXCEPT !.status = "Ok"]
    /\ UNCHANGED <<family, edge_list, min_free_vertex_id>>

NextG ==
    \/ \E line \in Lines : read_graph_line(line)
    \/ read_graph_end

SpecG == InitG /\ [][NextG]_vars

\* ------------------------------------------------------------ vocabulary
\* the locale of `a` holds an attribute collection for its edge to `b`
holds_attrs(a, b) == a \in DOMAIN edge_list /\ is_some(Locale_e_attrs(edge_list[a], b))

\* the endpoint the ownership rule names for the edge that contains_e(a, b) reports
rule_owner(a, b) ==
    LET dir == contains_e(a, b)
    IN  CASE dir = Some("Directed1to2") -> a
          [] dir = Some("Directed2to1") -> b
          [] OTHER                      -> IF a <= b THEN a ELSE b

\* neighbour sets of a vertex, empty for an absent vertex
recorded_in(a)    == IF a \in DOMAIN edge_list THEN Locale_neighbours_in(edge_list[a]) ELSE {}

recorded_out(a)   == IF a \in DOMAIN edge_list THEN Locale_neighbours_out(edge_list[a]) ELSE {}

recorded_undir(a) == IF a \in DOMAIN edge_list THEN Locale_neighbours_undir(edge_list[a]) ELSE {}

\* the unordered pairs of existing vertices joined by an edge (a = b allowed)
live_edges ==
    {p \in {{a, b} : a \in DOMAIN edge_list, b \in DOMAIN edge_list} :
        \E a \in p, b \in p : p = {a, b} /\ contains_e(a, b) # None}

\* the unordered endpoint pair of each item iter_e produces, in order
iter_e_pairs == [i \in 1 .. Len(iter_e) |-> {iter_e[i].id1, iter_e[i].id2}]

\* ----------------------------------------------------------------- claims

\* C1: for every edge that exists between two vertices a and b (a = b
\* allowed), exactly one of the two endpoint locales holds an attribute
\* collection for it, and it is the locale the ownership rule names: the
\* smaller id for an undirected edge, the source for a directed edge.
C1_EdgeOwnership ==
    \A a \in DOMAIN edge_list, b \in DOMAIN edge_list :
        contains_e(a, b) # None =>
            LET owner == rule_owner(a, b)
                other == IF owner = a THEN b ELSE a
            IN  /\ holds_attrs(owner, other)
                /\ (a # b => ~ holds_attrs(other, owner))

\* C2: e_attrs / e_attrs_mut return Ok exactly when both vertices exist and
\* contains_e reports an edge, return Err otherwise, and never panic.
C2_EAttrsTotal ==
    \A id1 \in VertexIds, id2 \in VertexIds :
        e_attrs(id1, id2).status =
            IF contains_v(id1) /\ contains_v(id2) /\ contains_e(id1, id2) # None
            THEN "Ok" ELSE "Err"

\* C3: b is recorded in a's locale iff a is recorded in b's locale, with
\* complementary relations (outgoing/incoming, undirected/undirected), for
\* all a and b including a = b.
C3_TwoSidedRecording ==
    \A a \in VertexIds, b \in VertexIds :
        /\ (b \in recorded_out(a)) <=> (a \in recorded_in(b))
        /\ (b \in recorded_undir(a)) <=> (a \in recorded_undir(b))

\* C4: add_v(Some(id)) on an identifier in use discards every edge incident
\* on the old vertex: no other vertex n is joined to id any more, the degree
\* of n no longer counts the old edge, and count_e drops by the number of
\* edges the old vertex had.
C4_ReplaceDiscardsEdges ==
    [][ (ret'.op = "add_v" /\ ret'.id1 # NoId /\ ret'.id1 \in DOMAIN edge_list) =>
            LET id == ret'.id1
            IN  /\ \A n \in DOMAIN edge_list \ {id} :
                      /\ contains_e_in(edge_list', n, id) = None
                      /\ contains_e_in(edge_list', id, n) = None
                      /\ v_degree_at(edge_list', n) =
                            v_degree(n) - (IF contains_e(n, id) # None THEN 1 ELSE 0)
                /\ count_e_in(edge_list') = count_e - v_degree(id) ]_vars

\* C5: after remove_v(id) returns true, id is no vertex, no remaining locale
\* records id as a neighbour, the degree of each former neighbour has dropped
\* by one, and the edges not incident on id are unchanged.
C5_CascadingRemoval ==
    [][ (ret'.op = "remove_v" /\ ret'.flag) =>
            LET id == ret'.id1
            IN  /\ ~ contains_v_in(edge_list', id)
                /\ \A n \in DOMAIN edge_list' :
                      /\ id \notin Locale_incident_ids(edge_list'[n])
                      /\ v_degree_at(edge_list', n) =
                            v_degree(n) - (IF id \in Locale_incident_ids(edge_list[n])
                                           THEN 1 ELSE 0)
                /\ \A a \in VertexIds \ {id}, b \in VertexIds \ {id} :
                      contains_e_in(edge_list', a, b) = contains_e(a, b) ]_vars

\* C6: count_e equals the number of live edges: the unordered pairs {a, b}
\* of vertices (a = b allowed) joined by an edge.
C6_CountELiveEdges == count_e = Cardinality(live_edges)

\* C7: iter_e produces each live edge exactly once: the endpoint pairs it
\* yields are pairwise different and are exactly the live edges.
C7_IterEExactlyOnce ==
    /\ \A i \in 1 .. Len(iter_e_pairs), j \in 1 .. Len(iter_e_pairs) :
            iter_e_pairs[i] = iter_e_pairs[j] => i = j
    /\ {iter_e_pairs[i] : i \in 1 .. Len(iter_e_pairs)} = live_edges

\* C8: min_free_vertex_id is the smallest unused identifier: it is no vertex
\* and every smaller identifier is a vertex.
C8_MinFreeIsSmallestUnused ==
    /\ min_free_vertex_id \notin DOMAIN edge_list
    /\ \A i \in VertexId_default .. (min_free_vertex_id - 1) : i \in DOMAIN edge_list

\* C8 witness: a removal has lowered min_free_vertex_id below a vertex that
\* is still there.
C8_Witness ==
    /\ ret.op = "remove_v" /\ ret.flag
    /\ min_free_vertex_id = ret.id1
    /\ \E v \in DOMAIN edge_list : v > min_free_vertex_id

\* C9: add_v(None) creates a new vertex at the smallest identifier not in
\* use, never replaces a vertex, raises count_v by one, and right after a
\* remove_v(id) that lowered the lowest free id it returns id.
C9_AddVNoneSmallestFree ==
    [][ (ret'.op = "add_v" /\ ret'.id1 = NoId) =>
            /\ ret'.value \notin DOMAIN edge_list
            /\ \A i \in VertexId_default .. (ret'.value - 1) : i \in DOMAIN edge_list
            /\ DOMAIN edge_list' = DOMAIN edge_list \cup {ret'.value}
            /\ count_v_in(edge_list') = count_v + 1
            /\ ((ret.op = "remove_v" /\ ret.flag /\ min_free_vertex_id = ret.id1)
                    => ret'.value = ret.id1) ]_vars

\* C9 witness: add_v(None) returned the minimum identifier although a vertex
\* with a higher explicit identifier exists.
C9_Witness ==
    /\ ret.op = "add_v" /\ ret.id1 = NoId
    /\ ret.value = VertexId_default
    /\ \E v \in DOMAIN edge_list : v > ret.value

\* C10: remove_v never fails: it returns false and leaves the graph unchanged
\* when the vertex is absent, true otherwise, and its internal
\* remove_e(..).unwrap() never meets an Err.
C10_RemoveVNeverFails ==
    [][ ret'.op = "remove_v" =>
            /\ ret'.status = "Ok"
            /\ (ret'.id1 \notin DOMAIN edge_list =>
                    ~ ret'.flag /\ edge_list' = edge_list
                    /\ min_free_vertex_id' = min_free_vertex_id)
            /\ (ret'.id1 \in DOMAIN edge_list => ret'.flag) ]_vars

\* C11: with a fixed-width vertex identifier type (u8), add_v always returns:
\* the loop that advances min_free_vertex_id ends without an arithmetic
\* overflow in every reachable state, also when the insertion takes the last
\* free identifier or the maximum identifier of the type.
C11_AddVNoOverflow == ret.op = "add_v" => ret.status = "Ok"

\* C12: when both vertices exist, remove_e(id1, id2) returns Ok(true) iff an
\* edge joined id1 and id2 when it was called (either argument order, any
\* direction, id1 = id2 included), and afterwards contains_e(id1, id2) and
\* contains_e(id2, id1) are both absent.
C12_RemoveEReportsExistence ==
    [][ (ret'.op = "remove_e" /\ ret'.status = "Ok") =>
            LET id1 == ret'.id1
                id2 == ret'.id2
            IN  /\ ret'.flag <=> (contains_e(id1, id2) # None \/ contains_e(id2, id1) # None)
                /\ contains_e_in(edge_list', id1, id2) = None
                /\ contains_e_in(edge_list', id2, id1) = None ]_vars

\* the fallible vertex queries answer Err for exactly the absent vertices
C13_QueriesErrIffAbsent ==
    \A id \in VertexIds :
        /\ (Graph_v_degree(edge_list, id).status = "Err") <=> ~ contains_v(id)
        /\ (Graph_v_degree_in(edge_list, id).status = "Err") <=> ~ contains_v(id)
        /\ (Graph_v_degree_out(edge_list, id).status = "Err") <=> ~ contains_v(id)
        /\ (Graph_v_degree_undir(edge_list, id).status = "Err") <=> ~ contains_v(id)
        /\ (Graph_v_attrs(edge_list, id).status = "Err") <=> ~ contains_v(id)

\* C13: add_e and remove_e return Err exactly when one of the two named
\* vertices is absent; v_degree, v_degree_in, v_degree_out, v_degree_undir,
\* v_attrs and v_attrs_mut return Err exactly when the named vertex is
\* absent; and a call that returns Err leaves vertices, edges, attributes and
\* min_free_vertex_id as they were.
C13_MissingVertexErrors ==
    /\ [] C13_QueriesErrIffAbsent
    /\ [][ /\ (ret'.op \in {"add_e", "remove_e"} =>
                    /\ ret'.status \in {"Ok", "Err"}
                    /\ (ret'.status = "Err") <=>
                            ~ (contains_v(ret'.id1) /\ contains_v(ret'.id2)))
           /\ (ret'.op = "v_attrs_mut" =>
                    /\ ret'.status \in {"Ok", "Err"}
                    /\ (ret'.status = "Err") <=> ~ contains_v(ret'.id1))
           /\ (ret'.status = "Err" =>
                    /\ edge_list' = edge_list
                    /\ min_free_vertex_id' = min_free_vertex_id) ]_vars

\* C13 witness: add_e was refused for an absent second vertex while the first
\* vertex exists, carries an edge and a written attribute collection.
C13_Witness ==
    /\ ret.op = "add_e" /\ ret.status = "Err"
    /\ contains_v(ret.id1) /\ ~ contains_v(ret.id2)
    /\ v_degree(ret.id1) > 0
    /\ edge_list[ret.id1].attributes # AttributeCollection_new

\* the direction contains_e is to report from the first endpoint of an edge
\* created by add_e(.., directed, ..): the locale family decides whether
\* `directed` counts
new_direction(directed) ==
    IF family = "directed" /\ directed THEN Some("Directed1to2") ELSE Some("Undirected")

\* the same edge seen from its other endpoint
mirror(dir) ==
    CASE dir = Some("Directed1to2") -> Some("Directed2to1")
      [] dir = Some("Directed2to1") -> Some("Directed1to2")
      [] OTHER                      -> dir

\* C14: add_e(id1, id2, directed) on a pair that already has an edge, of any
\* direction, replaces it: afterwards contains_e reports the new direction
\* from both endpoints, e_attrs(id1, id2) yields a fresh attribute
\* collection, and count_e is what it was.
C14_AddEReplacesEdge ==
    [][ (/\ ret'.op = "add_e" /\ ret'.status = "Ok"
         /\ (contains_e(ret'.id1, ret'.id2) # None \/ contains_e(ret'.id2, ret'.id1) # None)) =>
            LET id1 == ret'.id1
                id2 == ret'.id2
            IN  /\ contains_e_in(edge_list', id1, id2) = new_direction(ret'.directed)
                /\ contains_e_in(edge_list', id2, id1) = mirror(new_direction(ret'.directed))
                /\ e_attrs_in(edge_list', id1, id2).status = "Ok"
                /\ e_attrs_in(edge_list', id1, id2).attrs = Some(AttributeCollection_new)
                /\ count_e_in(edge_list') = count_e ]_vars

\* C15: after add_v(Some(id)) on an identifier in use, v_degree(id) is 0 and
\* so are the in-, out- and undirected degree, v_attrs(id) is a freshly
\* constructed collection, the call returned id, and count_v is unchanged.
C15_ReplacedVertexIsFresh ==
    [][ (ret'.op = "add_v" /\ ret'.id1 # NoId /\ ret'.id1 \in DOMAIN edge_list) =>
            LET id == ret'.id1
            IN  /\ Graph_v_degree(edge_list', id) = Ok(0)
                /\ Graph_v_degree_in(edge_list', id) = Ok(0)
                /\ Graph_v_degree_out(edge_list', id) = Ok(0)
                /\ Graph_v_degree_undir(edge_list', id) = Ok(0)
                /\ Graph_v_attrs(edge_list', id) = Ok(AttributeCollection_new)
                /\ ret'.status = "Ok" /\ ret'.value = id
                /\ count_v_in(edge_list') = count_v ]_vars

\* C15 witness: add_v(Some(id)) has just returned and another vertex still
\* records an edge to id, which the vertex replaced by the call had made.
C15_Witness ==
    /\ ret.op = "add_v" /\ ret.id1 # NoId
    /\ \E n \in DOMAIN edge_list \ {ret.id1} : contains_e(n, ret.id1) # None
    /\ v_degree(ret.id1) = 0
    /\ edge_list[ret.id1].attributes = AttributeCollection_new

\* what the public queries tell about an edge list: contains_e and e_attrs of
\* every pair, the four degrees of every vertex, count_e
observe(el) ==
    [contains_e |-> [a \in VertexIds, b \in VertexIds |-> contains_e_in(el, a, b)],
     e_attrs    |-> [a \in VertexIds, b \in VertexIds |-> e_attrs_in(el, a, b)],
     v_degree   |-> [a \in VertexIds |->
                        << Graph_v_degree(el, a), Graph_v_degree_in(el, a),
                           Graph_v_degree_out(el, a), Graph_v_degree_undir(el, a) >>],
     count_e    |-> count_e_in(el)]

\* C16: in a simple undirected graph the `directed` argument of add_e is
\* ignored: the state after add_e(id1, id2, true) and the state after
\* add_e(id1, id2, false) answer every public query alike: contains_e
\* (Undirected), the degrees, count_e, and e_attrs(id1, id2) succeeding on
\* the same owner.
C16_DirectedIgnoredUndirected ==
    [][ (ret'.op = "add_e" /\ ret'.status = "Ok" /\ family = "undirected") =>
            /\ contains_e_in(edge_list', ret'.id1, ret'.id2) = Some("Undirected")
            /\ e_attrs_in(edge_list', ret'.id1, ret'.id2).status = "Ok"
            /\ observe(edge_list') =
                    observe(Graph_add_e(edge_list, ret'.id1, ret'.id2, ~ ret'.directed)) ]_vars

\* C17: contains_e(id1, id2) is absent whenever id1 is no vertex, id2 is no
\* vertex, or no edge joins them; it reports a direction only when both
\* vertices exist and the edge is among the live edges.
C17_ContainsEOnlyLiveEdges ==
    \A id1 \in VertexIds, id2 \in VertexIds :
        contains_e(id1, id2) # None =>
            /\ contains_v(id1)
            /\ contains_v(id2)
            /\ {id1, id2} \in live_edges

\* in the directed family every two vertices see mirrored directions
C18_Mirrored ==
    family = "directed" =>
        \A a \in DOMAIN edge_list, b \in DOMAIN edge_list :
            contains_e(b, a) = mirror(contains_e(a, b))

\* C18: in a simple directed graph, after add_e(a, b, true) contains_e(a, b)
\* is Directed1to2 and contains_e(b, a) is Directed2to1, after
\* add_e(a, b, false) both are Undirected, and in every reachable state the
\* directions seen from the two endpoints mirror each other (a = b included).
C18_DirectedEdgeDirections ==
    /\ [] C18_Mirrored
    /\ [][ (ret'.op = "add_e" /\ ret'.status = "Ok" /\ family = "directed") =>
                /\ contains_e_in(edge_list', ret'.id1, ret'.id2) = new_direction(ret'.directed)
                /\ contains_e_in(edge_list', ret'.id2, ret'.id1) =
                        mirror(new_direction(ret'.directed)) ]_vars

\* C19: for every existing vertex v,
\* v_degree(v) = v_degree_in(v) + v_degree_out(v) + v_degree_undir(v).
C19_DegreeDecomposition ==
    \A v \in DOMAIN edge_list :
        Graph_v_degree(edge_list, v) =
            Ok(Graph_v_degree_in(edge_list, v).value + Graph_v_degree_out(edge_list, v).value
               + Graph_v_degree_undir(edge_list, v).value)

\* C19 witness: a directed graph in which one vertex has an outgoing and an
\* undirected edge and another vertex has an incoming edge.
C19_Witness ==
    /\ family = "directed"
    /\ \E v \in DOMAIN edge_list : v_degree_out(v) > 0 /\ v_degree_undir(v) > 0
    /\ \E w \in DOMAIN edge_list : v_degree_in(w) > 0

\* the vertices that share a live edge with v (v itself for a self-loop)
shares_edge_with(v) == {w \in DOMAIN edge_list : {v, w} \in live_edges}

\* C20: in a simple undirected graph, after any sequence of mutations (add_e
\* with directed = true included) every existing vertex has in-degree 0,
\* out-degree 0, and v_degree = v_degree_undir = the number of distinct
\* vertices it shares an edge with.
C20_UndirectedDegrees ==
    family = "undirected" =>
        \A v \in DOMAIN edge_list :
            /\ Graph_v_degree_in(edge_list, v) = Ok(0)
            /\ Graph_v_degree_out(edge_list, v) = Ok(0)
            /\ Graph_v_degree(edge_list, v) = Graph_v_degree_undir(edge_list, v)
            /\ Graph_v_degree(edge_list, v) = Ok(Cardinality(shares_edge_with(v)))

\* ------------------------------------------------- reachability vocabulary

RECURSIVE closure(_, _, _)
\* the vertices of el reached from the set seen along the steps succ allows
closure(el, succ, seen) ==
    LET more == (UNION {succ[v] : v \in seen} \cap DOMAIN el) \ seen
    IN  IF more = {} THEN seen ELSE closure(el, succ, seen \cup more)

\* the steps a walk may take: along outgoing and undirected edges
forward_steps(el) ==
    [v \in DOMAIN el |-> Locale_neighbours_out(el[v]) \cup Locale_neighbours_undir(el[v])]

\* the steps a walk may take when the direction is ignored
any_steps(el) ==
    [v \in DOMAIN el |-> Locale_neighbours_in(el[v]) \cup Locale_neighbours_out(el[v])
                            \cup Locale_neighbours_undir(el[v])]

\* every vertex is reached from every other one
all_reach_all(el, succ) ==
    \A u \in DOMAIN el : closure(el, succ, {u}) = DOMAIN el

\* C21: is_strongly_connected() returns true exactly when the graph is empty
\* or every vertex is reachable from every other one along outgoing and
\* undirected edges, in every graph the public mutators can build.
C21_StronglyConnectedIffReachable ==
    [][ret'.op = "is_strongly_connected"
        => /\ ret'.status = "Ok"
           /\ ret'.flag = all_reach_all(edge_list, forward_steps(edge_list))]_vars

\* C22: is_connected() returns true exactly when the graph is empty or every
\* vertex is reachable from every other one with the direction of the edges
\* ignored (incoming, outgoing and undirected neighbours all traversable).
C22_ConnectedIffReachable ==
    [][ret'.op = "is_connected"
        => /\ ret'.status = "Ok"
           /\ ret'.flag = all_reach_all(edge_list, any_steps(edge_list))]_vars

\* C23: in every reachable state, is_strongly_connected() == true implies
\* is_connected() == true (both calls start at the vertex iter_v yields first).
C23_StrongImpliesConnected ==
    \A start \in DOMAIN edge_list :
        \A ord \in AdjacencyOrders_out_undir(edge_list) :
            is_strongly_connected_from(edge_list, start, ord) = Returned(TRUE)
                => is_connected_from(edge_list, start) = Returned(TRUE)

\* C24: in every reachable state of a simple undirected graph is_connected()
\* and is_strongly_connected() return the same value.
C24_UndirectedTestsAgree ==
    family = "undirected" =>
        \A start \in DOMAIN edge_list :
            \A ord \in AdjacencyOrders_out_undir(edge_list) :
                /\ is_connected_from(edge_list, start).status = "Ok"
                /\ is_connected_from(edge_list, start)
                        = is_strongly_connected_from(edge_list, start, ord)

\* an ordering of all vertices, each once, every consecutive pair (u, v)
\* joined by an edge outgoing from u or undirected
hamiltonian_orderings(el) ==
    {q \in Perms(DOMAIN el) :
        \A i \in 1 .. Len(q) - 1 :
            q[i + 1] \in forward_steps(el)[q[i]]}

\* C28: on a graph of at most ten vertices has_hamiltonian_path returns true
\* exactly when the graph is empty or some ordering of all vertices joins
\* every consecutive pair by an outgoing or undirected edge, whatever the
\* hints are.
C28_HamiltonianIffOrdering ==
    [][ret'.op = "has_hamiltonian_path"
        => /\ ret'.status = "Ok"
           /\ ret'.flag = (edge_list = EmptyMap \/ hamiltonian_orderings(edge_list) # {})]_vars

\* the mutation just made removed or replaced the edge between a and b or one
\* of its endpoints, or wrote its attributes
touches_edge(r, a, b) ==
    \/ r.op \in {"add_e", "remove_e", "e_attrs_mut"} /\ {r.id1, r.id2} = {a, b}
    \/ r.op = "remove_v" /\ r.id1 \in {a, b}
    \/ r.op = "add_v" /\ r.value \in {a, b}

\* C25: edge attributes are addressed independently of the argument order:
\* what e_attrs_mut(id1, id2, _) wrote is read through e_attrs(id2, id1, _)
\* and e_attrs(id1, id2, _), and it stays until a mutation removes or
\* replaces that edge or one of its endpoints.
C25_EdgeAttrsOrderFree ==
    [][/\ (ret'.op = "e_attrs_mut" /\ ret'.status = "Ok")
            => /\ Graph_e_attrs(edge_list', ret'.id1, ret'.id2) = Ok(ret'.value)
               /\ Graph_e_attrs(edge_list', ret'.id2, ret'.id1) = Ok(ret'.value)
       /\ \A a, b \in VertexIds :
            (Graph_e_attrs(edge_list, a, b).status = "Ok" /\ ~ touches_edge(ret', a, b))
                => Graph_e_attrs(edge_list', a, b) = Graph_e_attrs(edge_list, a, b)]_vars

\* C26: a fresh vertex has a default-constructed attribute collection; what
\* v_attrs_mut(id) wrote is read back by v_attrs(id) and is not visible on
\* any other vertex; every mutation other than remove_v(id), add_v(Some(id))
\* and a write through v_attrs_mut(id) leaves v_attrs(id) as it was.
C26_VertexAttrsFrame ==
    [][/\ (ret'.op = "add_v" /\ ret'.status = "Ok")
            => Graph_v_attrs(edge_list', ret'.value) = Ok(AttributeCollection_new)
       /\ (ret'.op = "v_attrs_mut" /\ ret'.status = "Ok")
            => /\ Graph_v_attrs(edge_list', ret'.id1).status = "Ok"
               /\ Graph_v_attrs(edge_list', ret'.id1).value
                    \in AttributeMap_insert(Graph_v_attrs(edge_list, ret'.id1).value)
       /\ \A v \in DOMAIN edge_list :
            ~ (ret'.op \in {"remove_v", "add_v", "v_attrs_mut"} /\ ret'.id1 = v)
                => Graph_v_attrs(edge_list', v) = Graph_v_attrs(edge_list, v)]_vars

\* a written vertex next to an unwritten one, right after an edge was added
C26_Witness ==
    /\ ret.op = "add_e" /\ ret.status = "Ok"
    /\ \E v, w \in DOMAIN edge_list :
        /\ Graph_v_attrs(edge_list, v) = Ok(AttributeCollection_new + 1)
        /\ Graph_v_attrs(edge_list, w) = Ok(AttributeCollection_new)

\* C27: in a simple graph add_e ignores the supplied edge_id: whenever it
\* succeeds it returns the placeholder, the minimum of the edge id type (0),
\* whatever edge_id was passed and on every call.
C27_AddEReturnsPlaceholder ==
    [][(ret'.op = "add_e" /\ ret'.status = "Ok")
        => /\ ret'.value = EdgeId_default
           /\ edge_list' = Graph_add_e(edge_list, ret'.id1, ret'.id2, ret'.directed)]_vars

\* add_e has succeeded on a call that passed Some(30)
C27_Witness ==
    /\ ret.op = "add_e" /\ ret.status = "Ok"
    /\ ret.edge_id = Some(30)
    /\ ret.value = EdgeId_default

\* C29: no dangling neighbours: every vertex id recorded in any bucket of any
\* locale is the id of an existing vertex.
C29_NoDanglingNeighbours ==
    \A v \in DOMAIN edge_list : Locale_incident_ids(edge_list[v]) \subseteq DOMAIN edge_list

\* C30: every item iter_e() produces carries the direction as stored:
\* item.direction is what contains_e(item.id1, item.id2, item.edge_id)
\* returns, in both families.
C30_IterEDirectionAsStored ==
    \A i \in 1 .. Len(iter_e) :
        contains_e(iter_e[i].id1, iter_e[i].id2) = Some(iter_e[i].direction)

\* C31: in a simple directed locale the buckets incoming, outgoing and
\* undirected are pairwise disjoint after any sequence of add_e, remove_e and
\* remove_neighbour calls, so e_direction classifies each neighbour in at most
\* one relation.
C31_BucketsDisjoint ==
    family = "directed" =>
        /\ the_locale.edges.incoming \cap DOMAIN the_locale.edges.outgoing = {}
        /\ the_locale.edges.incoming \cap DOMAIN the_locale.edges.undirected = {}
        /\ DOMAIN the_locale.edges.outgoing \cap DOMAIN the_locale.edges.undirected = {}

\* a directed locale with an incoming and an outgoing neighbour, right after
\* an add_e call
C31_Witness ==
    /\ family = "directed"
    /\ ret.op = "Locale::add_e"
    /\ the_locale.edges.incoming # {}
    /\ DOMAIN the_locale.edges.outgoing # {}

\* C32: is_connected() and is_strongly_connected() are total on every graph
\* the public mutators can reach: every neighbour they look up is in the
\* vertex map and in the index and back link tables, so neither panics.
C32_TopologyTestsTotal ==
    [][ret'.op \in {"is_connected", "is_strongly_connected"} => ret'.status # "Panic"]_vars

\* C33: the results of is_connected() and is_strongly_connected() are
\* determined by the graph alone: every start vertex and every iteration
\* order of the adjacent vertices give the same boolean.
C33_TopologyTestsDeterminate ==
    /\ \A s1, s2 \in DOMAIN edge_list :
            is_connected_from(edge_list, s1) = is_connected_from(edge_list, s2)
    /\ \A s1, s2 \in DOMAIN edge_list :
            \A o1, o2 \in AdjacencyOrders_out_undir(edge_list) :
                is_strongly_connected_from(edge_list, s1, o1)
                    = is_strongly_connected_from(edge_list, s2, o2)

\* the runs of is_strongly_connected on the current graph, one for each start
\* vertex and each iteration order of the adjacent vertices
strongly_connected_runs ==
    {dfs_run(edge_list, ord, dfs_start(start), 1) :
        start \in DOMAIN edge_list, ord \in AdjacencyOrders_out_undir(edge_list)}

\* C34: is_strongly_connected leaves its loop from a finishing step (back
\* link equal to the index, stack not empty) only with the answer false and
\* only when the graph has more than one strongly connected component; this
\* exit never fires on a strongly connected graph, also when a vertex was
\* pushed on the stack several times.
C34_EarlyExitSound ==
    [][ret'.op = "is_strongly_connected"
        => \A run \in strongly_connected_runs :
                run.exit = "early"
                    => /\ run.flag = FALSE
                       /\ ~ all_reach_all(edge_list, forward_steps(edge_list))]_vars

\* the test has answered false through the early exit, on a run that pushed
\* more entries than there are vertices
C34_Witness ==
    /\ ret.op = "is_strongly_connected" /\ ret.status = "Ok" /\ ret.flag = FALSE
    /\ \E run \in strongly_connected_runs :
            run.exit = "early" /\ run.pushed > count_v

\* the adjacency records of a graph: what every locale holds, summed
adjacency_records(el) == sum_incident_e(el, SetToSeq(DOMAIN el))

\* C35: is_connected() and is_strongly_connected() terminate on every finite
\* graph, each iteration visiting a new vertex or removing an entry of the
\* queue or stack, and the entries ever pushed (the start vertex and one per
\* adjacency record at most) are bounded by the number of adjacency records.
C35_PushesBounded ==
    [][/\ ret'.op = "is_connected"
            => \A start \in DOMAIN edge_list :
                    bfs_run(edge_list, << start >>, {}, 1).pushed
                        <= 1 + adjacency_records(edge_list)
       /\ ret'.op = "is_strongly_connected"
            => \A run \in strongly_connected_runs :
                    run.pushed <= 1 + adjacency_records(edge_list)]_vars

\* removing the record of id2 twice from a locale, through remove(loc, id2)
\* answering with flag(loc, id2): the second call answers false and changes
\* nothing
removed_twice(loc, id2, once, flag_again, twice) ==
    /\ flag_again = FALSE
    /\ twice = once

\* C36: edge removal is idempotent: remove_e(id1, id2, _) called again right
\* after it returned Ok returns Ok(false) and leaves the graph as the first
\* call left it; the same holds for remove_e and remove_neighbour of a locale.
C36_RemoveEIdempotent ==
    [][/\ (/\ ret.op = "remove_e" /\ ret.status = "Ok"
           /\ ret'.op = "remove_e" /\ ret'.id1 = ret.id1 /\ ret'.id2 = ret.id2)
            => /\ ret'.status = "Ok"
               /\ ret'.flag = FALSE
               /\ edge_list' = edge_list
       /\ \A v \in DOMAIN edge_list', id2 \in VertexIds :
            /\ removed_twice(edge_list'[v], id2,
                    Locale_remove_e(edge_list'[v], id2),
                    Locale_remove_e_ret(Locale_remove_e(edge_list'[v], id2), id2),
                    Locale_remove_e(Locale_remove_e(edge_list'[v], id2), id2))
            /\ removed_twice(edge_list'[v], id2,
                    Locale_remove_neighbour(edge_list'[v], id2),
                    Locale_remove_neighbour_ret(Locale_remove_neighbour(edge_list'[v], id2), id2),
                    Locale_remove_neighbour(Locale_remove_neighbour(edge_list'[v], id2), id2))
      ]_vars

\* remove_e has answered Ok(false) for two different existing vertices
C36_Witness ==
    /\ ret.op = "remove_e" /\ ret.status = "Ok" /\ ret.flag = FALSE
    /\ ret.id1 # ret.id2
    /\ contains_e(ret.id1, ret.id2) = None

\* what the locale loc records about its neighbour w: the direction and the
\* attributes of the edge
record_of(loc, w) == <<Locale_e_direction(loc, w), Locale_e_attrs(loc, w)>>

\* C37: a successful add_e(id1, id2, ..) or remove_e(id1, id2, _) changes only
\* the record of id2 in id1's locale and the record of id1 in id2's locale:
\* the vertex set, min_free_vertex_id, every vertex's attributes and every
\* edge between another pair of vertices, with its attributes, stay as they
\* were.
C37_EdgeMutationFrame ==
    [][(ret'.op \in {"add_e", "remove_e"} /\ ret'.status = "Ok")
        => /\ DOMAIN edge_list' = DOMAIN edge_list
           /\ min_free_vertex_id' = min_free_vertex_id
           /\ \A v \in DOMAIN edge_list :
                /\ Graph_v_attrs(edge_list', v) = Graph_v_attrs(edge_list, v)
                /\ edge_list'[v].associated_vertex_id = edge_list[v].associated_vertex_id
                /\ v \notin {ret'.id1, ret'.id2} => edge_list'[v] = edge_list[v]
                /\ \A w \in VertexIds :
                        <<v, w>> \notin {<<ret'.id1, ret'.id2>>, <<ret'.id2, ret'.id1>>}
                            => record_of(edge_list'[v], w) = record_of(edge_list[v], w)
           /\ \A a, b \in VertexIds :
                {a, b} # {ret'.id1, ret'.id2}
                    => /\ contains_e_in(edge_list', a, b) = contains_e_in(edge_list, a, b)
                       /\ Graph_e_attrs(edge_list', a, b) = Graph_e_attrs(edge_list, a, b)
      ]_vars

\* add_e or remove_e has succeeded on two different vertices while one of
\* them carries attributes and a loop whose attributes are not empty
C37_Witness ==
    /\ ret.op \in {"add_e", "remove_e"} /\ ret.status = "Ok"
    /\ ret.id1 # ret.id2
    /\ Graph_v_attrs(edge_list, ret.id1) = Ok(1)
    /\ Graph_e_attrs(edge_list, ret.id1, ret.id1) = Ok(1)

\* the position of a document state in the order of the phases
phase(state) == CHOOSE i \in 1 .. 3 : DocumentState[i] = state

\* C38: read_graph's document state only moves forward; an AV line after a
\* vertex declaration, an AE line after an edge declaration, a V line after an
\* edge declaration and an A or E line before any vertex declaration make the
\* read return Err; an edge line is accepted only when both its vertices have
\* been declared, and otherwise the read returns Err.
C38_DeclarationOrder ==
    [][ret'.op = "read_graph" =>
        /\ phase(ret'.state) >= phase(ret.state)
        /\ (ret'.line.specifier = "AV" /\ "V" \in ret.seen) => ret'.status = "Err"
        /\ (ret'.line.specifier = "AE" /\ ret.seen \cap {"A", "E"} # {})
                => ret'.status = "Err"
        /\ (ret'.line.specifier = "V" /\ ret.seen \cap {"A", "E"} # {})
                => ret'.status = "Err"
        /\ (ret'.line.specifier \in {"A", "E"} /\ "V" \notin ret.seen)
                => ret'.status = "Err"
        /\ (ret'.line.specifier \in {"A", "E"} /\ ret'.line_number # ret.line_number)
                => \/ ret'.status = "Err"
                   \/ {ret'.line.id1, ret'.line.id2} \subseteq ret.declared
        /\ (ret.status = "Reading" /\ ret'.status = "Ok")
                => \A e \in Range(iter_e_in(edge_list')) : {e.id1, e.id2} \subseteq ret'.declared
      ]_vars

\* a document of all three phases has been read to its end: an attribute
\* declaration, a vertex and an edge have been accepted
C38_Witness ==
    /\ ret.op = "read_graph" /\ ret.status = "Ok"
    /\ {"AV", "AE", "V"} \subseteq ret.seen
    /\ ret.seen \cap {"A", "E"} # {}
    /\ ret.state = DocumentState[3]

============================================================================
